---- MODULE Spec2Model ----
(***************************************************************************)
(* har-extractor (src/main.go): a streaming HAR reader (processHar) that   *)
(* hands each element of the "entries" array to processEntry, which        *)
(* filters by host, derives a destination path and writes the response     *)
(* body.  Strings of the program are sequences of one-character strings    *)
(* (URLs, paths) or of ASCII codes (content.text, file bytes).  The file   *)
(* system is the POSIX one (separator "/").                                 *)
(***************************************************************************)
EXTENDS Integers, Sequences, FiniteSets, TLC

----------------------------------------------------------------------------
(* Bounds of the model.                                                    *)

MaxPathLen == 2
MaxTextLen == 4
MaxEntries == 2
MaxArgs == 2

SeqsUpTo(S, n) == UNION {[1..k -> S] : k \in 0..n}

----------------------------------------------------------------------------
(* String helpers (package strings).                                       *)

RECURSIVE IndexFrom(_, _, _)
IndexFrom(s, c, i) ==
    IF i > Len(s) THEN 0
    ELSE IF s[i] = c THEN i
    ELSE IndexFrom(s, c, i + 1)

\* strings.Index for a one-character needle; 0 when absent
Index(s, c) == IndexFrom(s, c, 1)

RECURSIVE LastIndexFrom(_, _, _)
LastIndexFrom(s, c, i) ==
    IF i < 1 THEN 0
    ELSE IF s[i] = c THEN i
    ELSE LastIndexFrom(s, c, i - 1)

\* strings.LastIndex for a one-character needle; 0 when absent
LastIndex(s, c) == LastIndexFrom(s, c, Len(s))

Count(s, c) == Cardinality({i \in 1..Len(s) : s[i] = c})

HasPrefix(s, p) == Len(s) >= Len(p) /\ SubSeq(s, 1, Len(p)) = p

Tail2(s, i) == SubSeq(s, i, Len(s))

\* strings.Map(f, s) with the mapping of safeFileName
safeFileNameRune(r) == IF r = "/" \/ r = "\\" THEN "-" ELSE r

safeFileName(s) == [i \in 1..Len(s) |-> safeFileNameRune(s[i])]

----------------------------------------------------------------------------
(* package path/filepath on a POSIX system.                                *)

\* strings.Split for a one-character separator, empty elements included
RECURSIVE SplitOn(_, _)
SplitOn(p, c) ==
    LET i == Index(p, c) IN
    IF i = 0 THEN <<p>>
    ELSE <<SubSeq(p, 1, i - 1)>> \o SplitOn(Tail2(p, i + 1), c)

\* the elements of a path between separators
Split(p) == SplitOn(p, "/")

RECURSIVE JoinSegs(_)
JoinSegs(segs) ==
    IF segs = <<>> THEN <<>>
    ELSE IF Len(segs) = 1 THEN segs[1]
    ELSE segs[1] \o <<"/">> \o JoinSegs(Tail(segs))

\* the lexical processing of filepath.Clean over the elements of a path
RECURSIVE CleanSegs(_, _, _)
CleanSegs(segs, out, rooted) ==
    IF segs = <<>> THEN out
    ELSE LET s == Head(segs) IN
         IF s = <<>> \/ s = <<".">> THEN CleanSegs(Tail(segs), out, rooted)
         ELSE IF s = <<".", ".">> THEN
              IF out # <<>> /\ out[Len(out)] # <<".", ".">>
              THEN CleanSegs(Tail(segs), SubSeq(out, 1, Len(out) - 1), rooted)
              ELSE IF rooted THEN CleanSegs(Tail(segs), out, rooted)
              ELSE CleanSegs(Tail(segs), Append(out, s), rooted)
         ELSE CleanSegs(Tail(segs), Append(out, s), rooted)

Clean(p) ==
    IF p = <<>> THEN <<".">>
    ELSE LET rooted == p[1] = "/"
             out == CleanSegs(Split(p), <<>>, rooted)
         IN IF rooted THEN <<"/">> \o JoinSegs(out)
            ELSE IF out = <<>> THEN <<".">>
            ELSE JoinSegs(out)

\* filepath.Join: empty elements are ignored, the result is cleaned
Join(elems) ==
    LET ne == SelectSeq(elems, LAMBDA e : e # <<>>) IN
    IF ne = <<>> THEN <<>> ELSE Clean(JoinSegs(ne))

\* filepath.Dir: all but the last element of the path, cleaned
Dir(p) == Clean(SubSeq(p, 1, LastIndex(p, "/")))

----------------------------------------------------------------------------
(* package net/url: url.Parse, for URLs without "%", "@", "[" or control   *)
(* characters.                                                             *)

Letters ==
    {"a", "b", "c", "d", "e", "f", "g", "h", "i", "j", "k", "l", "m",
     "n", "o", "p", "q", "r", "s", "t", "u", "v", "w", "x", "y", "z"}

Digits == {"0", "1", "2", "3", "4", "5", "6", "7", "8", "9"}

\* getScheme: (scheme, rest) of a raw URL, or an error for a leading colon
RECURSIVE getSchemeFrom(_, _)
getSchemeFrom(raw, i) ==
    IF i > Len(raw) THEN [err |-> FALSE, scheme |-> <<>>, rest |-> raw]
    ELSE IF raw[i] \in Letters THEN getSchemeFrom(raw, i + 1)
    ELSE IF raw[i] \in Digits \cup {"+", "-", "."} THEN
         IF i = 1 THEN [err |-> FALSE, scheme |-> <<>>, rest |-> raw]
         ELSE getSchemeFrom(raw, i + 1)
    ELSE IF raw[i] = ":" THEN
         IF i = 1 THEN [err |-> TRUE, scheme |-> <<>>, rest |-> <<>>]
         ELSE [err |-> FALSE, scheme |-> SubSeq(raw, 1, i - 1),
               rest |-> Tail2(raw, i + 1)]
    ELSE [err |-> FALSE, scheme |-> <<>>, rest |-> raw]

getScheme(raw) == getSchemeFrom(raw, 1)

\* strings.Cut for a one-character separator
CutBefore(s, c) == IF Index(s, c) = 0 THEN s ELSE SubSeq(s, 1, Index(s, c) - 1)

CutAfter(s, c) == IF Index(s, c) = 0 THEN <<>> ELSE Tail2(s, Index(s, c) + 1)

\* validOptionalPort: "" or ":" followed by digits
validOptionalPort(port) ==
    port = <<>> \/ (port[1] = ":" /\ \A i \in 2..Len(port) : port[i] \in Digits)

\* characters parseHost accepts unescaped in a host
validHostChar(c) ==
    c \in Letters \cup Digits \cup {"-", "_", ".", "~", ":", "!", "$", "&", "'",
                                    "(", ")", "*", "+", ",", ";", "=", "<", ">"}

\* parseHost: the host of an authority, or an error
validHost(host) ==
    /\ \A i \in 1..Len(host) : validHostChar(host[i])
    /\ LastIndex(host, ":") # 0 => validOptionalPort(Tail2(host, LastIndex(host, ":")))

UrlError == [err |-> TRUE, Scheme |-> <<>>, Opaque |-> <<>>, Host |-> <<>>,
             Path |-> <<>>, RawQuery |-> <<>>, Fragment |-> <<>>]

\* the path and the query of what follows the scheme: a lone trailing "?"
\* is dropped, else the first "?" separates them
cutQuery(s) ==
    IF s # <<>> /\ s[Len(s)] = "?" /\ Count(s, "?") = 1
    THEN [rest |-> SubSeq(s, 1, Len(s) - 1), query |-> <<>>]
    ELSE [rest |-> CutBefore(s, "?"), query |-> CutAfter(s, "?")]

\* the authority and the path of a rest that starts with "//"
cutAuthority(afterSlashes) ==
    [authority |-> CutBefore(afterSlashes, "/"),
     path |-> IF Index(afterSlashes, "/") = 0 THEN <<>>
              ELSE Tail2(afterSlashes, Index(afterSlashes, "/"))]

parseAuthority(scheme, ap, query, frag) ==
    IF ~validHost(ap.authority) THEN UrlError
    ELSE [err |-> FALSE, Scheme |-> scheme, Opaque |-> <<>>, Host |-> ap.authority,
          Path |-> ap.path, RawQuery |-> query, Fragment |-> frag]

\* url.parse after the scheme and the query are cut off: an opaque URL, a
\* colon in the first segment of a relative path, an authority, a path
parseRest(scheme, rest, query, frag) ==
    IF ~HasPrefix(rest, <<"/">>) /\ scheme # <<>> THEN
        [err |-> FALSE, Scheme |-> scheme, Opaque |-> rest, Host |-> <<>>,
         Path |-> <<>>, RawQuery |-> query, Fragment |-> frag]
    ELSE IF ~HasPrefix(rest, <<"/">>) /\ Index(CutBefore(rest, "/"), ":") # 0
        THEN UrlError
    ELSE IF (scheme # <<>> \/ ~HasPrefix(rest, <<"/", "/", "/">>))
                /\ HasPrefix(rest, <<"/", "/">>)
        THEN parseAuthority(scheme, cutAuthority(Tail2(rest, 3)), query, frag)
    ELSE [err |-> FALSE, Scheme |-> scheme, Opaque |-> <<>>, Host |-> <<>>,
          Path |-> rest, RawQuery |-> query, Fragment |-> frag]

parseScheme(gs, frag) ==
    IF gs.err THEN UrlError
    ELSE parseRest(gs.scheme, cutQuery(gs.rest).rest, cutQuery(gs.rest).query, frag)

\* url.Parse: fragment cut off first, then scheme, query, authority and path
urlParse(rawURL) == parseScheme(getScheme(CutBefore(rawURL, "#")), CutAfter(rawURL, "#"))

----------------------------------------------------------------------------
(* package encoding/base64: base64.StdEncoding over ASCII codes.           *)

\* the value of a character of the standard alphabet, -1 for any other
Sextet(c) ==
    IF c >= 65 /\ c <= 90 THEN c - 65
    ELSE IF c >= 97 /\ c <= 122 THEN c - 71
    ELSE IF c >= 48 /\ c <= 57 THEN c + 4
    ELSE IF c = 43 THEN 62
    ELSE IF c = 47 THEN 63
    ELSE -1

\* the character of the standard alphabet for a 6-bit value
EncodeChar(v) ==
    IF v < 26 THEN v + 65
    ELSE IF v < 52 THEN v + 71
    ELSE IF v < 62 THEN v - 4
    ELSE IF v = 62 THEN 43
    ELSE 47

PadChar == 61

\* "\r" and "\n" are ignored by the decoder wherever they appear
StripNewlines(src) == SelectSeq(src, LAMBDA c : c # 10 /\ c # 13)

B64Error == [err |-> TRUE, data |-> <<>>]

\* decoding of one quantum after another; padding only ends the input and
\* the unused low bits of a padded quantum are not checked (not Strict)
RECURSIVE DecodeQuanta(_)
DecodeQuanta(s) ==
    IF s = <<>> THEN [err |-> FALSE, data |-> <<>>]
    ELSE IF Len(s) < 4 THEN B64Error
    ELSE LET v1 == Sextet(s[1])
             v2 == Sextet(s[2])
             v3 == Sextet(s[3])
             v4 == Sextet(s[4])
             n == v1 * 262144 + v2 * 4096
                    + (IF v3 < 0 THEN 0 ELSE v3) * 64 + (IF v4 < 0 THEN 0 ELSE v4)
             b1 == n \div 65536
             b2 == (n \div 256) % 256
             b3 == n % 256
             more == DecodeQuanta(Tail2(s, 5))
         IN IF v1 < 0 \/ v2 < 0 THEN B64Error
            ELSE IF v3 >= 0 /\ v4 >= 0 THEN
                 IF more.err THEN B64Error
                 ELSE [err |-> FALSE, data |-> <<b1, b2, b3>> \o more.data]
            ELSE IF v3 >= 0 /\ s[4] = PadChar /\ Len(s) = 4 THEN
                 [err |-> FALSE, data |-> <<b1, b2>>]
            ELSE IF s[3] = PadChar /\ s[4] = PadChar /\ Len(s) = 4 THEN
                 [err |-> FALSE, data |-> <<b1>>]
            ELSE B64Error

\* base64.StdEncoding.DecodeString
DecodeString(src) == DecodeQuanta(StripNewlines(src))

\* base64.StdEncoding.EncodeToString
RECURSIVE EncodeToString(_)
EncodeToString(b) ==
    IF b = <<>> THEN <<>>
    ELSE IF Len(b) = 1 THEN
        <<EncodeChar(b[1] \div 4), EncodeChar((b[1] % 4) * 16), PadChar, PadChar>>
    ELSE IF Len(b) = 2 THEN
        <<EncodeChar(b[1] \div 4), EncodeChar((b[1] % 4) * 16 + b[2] \div 16),
          EncodeChar((b[2] % 16) * 4), PadChar>>
    ELSE <<EncodeChar(b[1] \div 4), EncodeChar((b[1] % 4) * 16 + b[2] \div 16),
           EncodeChar((b[2] % 16) * 4 + b[3] \div 64), EncodeChar(b[3] % 64)>>
         \o EncodeToString(Tail2(b, 4))

----------------------------------------------------------------------------
(* The file system as package os sees it: a set of directories and a map   *)
(* from file paths to their bytes.  "." and "/" and the ancestors of the   *)
(* working directory always exist.                                         *)

EmptyFS == [dirs |-> {}, files |-> <<>>]

EnvDir(p) ==
    \/ p = <<".">>
    \/ p = <<"/">>
    \/ \A i \in 1..Len(Split(p)) : Split(p)[i] = <<".", ".">>

IsDir(f, p) == p \in f.dirs \/ EnvDir(p)

IsFile(f, p) == p \in DOMAIN f.files

\* the proper ancestors MkdirAll recurses through
Parents(p) == {SubSeq(p, 1, i - 1) : i \in {j \in 2..Len(p) : p[j] = "/"}}

\* os.MkdirAll: fails when the path or an ancestor is a file, else creates
\* every missing directory of the chain
MkdirAll(f, p) ==
    LET chain == Parents(p) \cup {p} IN
    IF \E a \in chain : IsFile(f, a) THEN [err |-> TRUE, fs |-> f]
    ELSE [err |-> FALSE,
          fs |-> [f EXCEPT !.dirs = @ \cup {a \in chain : ~EnvDir(a)}]]

\* os.Create without O_TRUNC: an existing file keeps its bytes
Create_noTrunc(f, p) ==
    IF IsDir(f, p) \/ ~IsDir(f, Dir(p)) THEN [err |-> TRUE, fs |-> f]
    ELSE [err |-> FALSE,
          fs |-> [f EXCEPT !.files =
                    [q \in DOMAIN f.files \cup {p} |->
                        IF q \in DOMAIN f.files THEN f.files[q] ELSE <<>>]]]

\* os.Create: O_RDWR|O_CREATE|O_TRUNC; fails on a directory or when the
\* parent is not a directory
Create(f, p) ==
    IF IsDir(f, p) \/ ~IsDir(f, Dir(p)) THEN [err |-> TRUE, fs |-> f]
    ELSE [err |-> FALSE,
          fs |-> [f EXCEPT !.files =
                    [q \in DOMAIN f.files \cup {p} |-> IF q = p THEN <<>> ELSE f.files[q]]]]

\* file.Write / file.WriteString on a file just opened: the bytes land at
\* offset 0 over what the file holds
Write(f, p, data) ==
    LET old == f.files[p] IN
    [f EXCEPT !.files[p] = data \o SubSeq(old, Len(data) + 1, Len(old))]

----------------------------------------------------------------------------
(* processEntry (main.go:115-172).                                         *)

\* type Entry: the fields the program reads
NoEntry == [url |-> <<>>, text |-> <<>>, encoding |-> ""]

\* the host filter without the test for an empty allowlist
hostAllowed_noEmpty(hostAllowlist, host) == host \in hostAllowlist

\* main.go:121-125: the host filter
hostAllowed(hostAllowlist, host) ==
    hostAllowlist # {} => host \in hostAllowlist

\* main.go:127-129
clearQuery(parsedUrl, removeQueryString) ==
    IF removeQueryString THEN [parsedUrl EXCEPT !.RawQuery = <<>>] ELSE parsedUrl

\* the directory derived from the path with its query string attached
dirPathOf_query(rootDir, parsedUrl) ==
    Join(<<rootDir, parsedUrl.Host,
           Dir(IF parsedUrl.RawQuery = <<>> THEN parsedUrl.Path
               ELSE parsedUrl.Path \o <<"?">> \o parsedUrl.RawQuery)>>)

\* main.go:131
dirPathOf(rootDir, parsedUrl) == Join(<<rootDir, parsedUrl.Host, Dir(parsedUrl.Path)>>)

\* the directory made in a dry run too
makeDir_always(dryRun, f, dirPath) == MkdirAll(f, dirPath)

\* main.go:133-138: the directory is made unless this is a dry run
makeDir(dryRun, f, dirPath) ==
    IF dryRun THEN [err |-> FALSE, fs |-> f] ELSE MkdirAll(f, dirPath)

\* main.go:140
filePathOf(dirPath, parsedUrl) == Join(<<dirPath, safeFileName(parsedUrl.Path)>>)

\* main.go:157-162: the decoded bytes are written unless decoding fails
writeDecoded(decoded, created, filePath) ==
    IF decoded.err THEN [err |-> TRUE, fs |-> created.fs, outcome |-> "base64Error"]
    ELSE [err |-> FALSE, fs |-> Write(created.fs, filePath, decoded.data),
          outcome |-> "written"]

\* the text written as it is, whatever the encoding marker
writeCreated_raw(created, filePath, content) ==
    IF created.err THEN [err |-> TRUE, fs |-> created.fs, outcome |-> "createError"]
    ELSE [err |-> FALSE, fs |-> Write(created.fs, filePath, content.text),
          outcome |-> "written"]

\* main.go:150-165: the error of os.Create, else the content by its marker
writeCreated(created, filePath, content) ==
    IF created.err THEN [err |-> TRUE, fs |-> created.fs, outcome |-> "createError"]
    ELSE IF content.encoding = "base64"
        THEN writeDecoded(DecodeString(content.text), created, filePath)
    ELSE [err |-> FALSE, fs |-> Write(created.fs, filePath, content.text),
          outcome |-> "written"]

\* main.go:149-171: create the file, decode if marked base64, write, close
writeContent(f, filePath, content) ==
    writeCreated(Create(f, filePath), filePath, content)

\* what processEntry returns and leaves behind when it writes nothing
NoResult(f) ==
    [err |-> FALSE, fs |-> f, outcome |-> "", dirPath |-> <<>>, filePath |-> <<>>,
     printed |-> FALSE]

\* main.go:145-171: a dry run stops with the path computed, else the
\* content is written
processEntryFile(wrote, dirPath, filePath, dryRun, verbose, f) ==
    IF dryRun
    THEN [NoResult(f) EXCEPT !.outcome = "dry", !.dirPath = dirPath,
                             !.filePath = filePath, !.printed = verbose]
    ELSE [err |-> wrote.err, fs |-> wrote.fs, outcome |-> wrote.outcome,
          dirPath |-> dirPath, filePath |-> filePath, printed |-> verbose]

\* main.go:133-143: the directory, then the file path
processEntryDir(made, dirPath, filePath, entry, dryRun, verbose) ==
    IF made.err
    THEN [NoResult(made.fs) EXCEPT !.err = TRUE, !.outcome = "mkdirError",
                                   !.dirPath = dirPath]
    ELSE processEntryFile(writeContent(made.fs, filePath, entry), dirPath, filePath,
                          dryRun, verbose, made.fs)

\* main.go:131-140
processEntryPath(dirPath, parsedUrl, entry, dryRun, verbose, f) ==
    processEntryDir(makeDir(dryRun, f, dirPath), dirPath, filePathOf(dirPath, parsedUrl),
                    entry, dryRun, verbose)

\* main.go:117-131: the error of url.Parse, the host filter, the query
processEntryParsed(parsed, entry, rootDir, removeQueryString, dryRun, verbose, hostAllowlist, f) ==
    IF parsed.err THEN [NoResult(f) EXCEPT !.err = TRUE, !.outcome = "urlError"]
    ELSE IF ~hostAllowed(hostAllowlist, parsed.Host)
        THEN [NoResult(f) EXCEPT !.outcome = "skip"]
    ELSE processEntryPath(dirPathOf(rootDir, clearQuery(parsed, removeQueryString)),
                          clearQuery(parsed, removeQueryString), entry, dryRun,
                          verbose, f)

processEntry(entry, rootDir, removeQueryString, dryRun, verbose, hostAllowlist, f) ==
    processEntryParsed(urlParse(entry.url), entry, rootDir, removeQueryString, dryRun,
                       verbose, hostAllowlist, f)

----------------------------------------------------------------------------
(* package encoding/json: json.Decoder over a document given as its        *)
(* sequence of lexemes.  Commas and colons are where JSON wants them and   *)
(* are not lexemes; "bad" is any text that is not JSON; "obj" is a whole   *)
(* JSON object with the fields of an Entry (v) and no string "entries"     *)
(* inside.                                                                 *)

Lex(k) == [k |-> k, v |-> NoEntry]

Obj(e) == [k |-> "obj", v |-> e]

Opens == {"{", "["}

Closes == {"}", "]"}

Strings == {"entries", "str"}

Scalars == {"entries", "str", "num", "null"}

NewDecoder == [pos |-> 1, tokenState |-> "tokenTopValue", tokenStack |-> <<>>,
               inObj |-> FALSE]

\* the decoder's state once the comma or colon before the next lexeme has
\* been consumed (Token's ':' and ',' cases, tokenPrepareForDecode)
afterPunct(st, k) ==
    IF st = "tokenArrayComma" /\ k # "]" THEN "tokenArrayValue"
    ELSE IF st = "tokenObjectComma" /\ k # "}" THEN "tokenObjectKey"
    ELSE IF st = "tokenObjectColon" THEN "tokenObjectValue"
    ELSE st

tokenValueAllowed(st) ==
    st \in {"tokenTopValue", "tokenArrayStart", "tokenArrayValue", "tokenObjectValue"}

tokenValueEnd(st) ==
    IF st \in {"tokenArrayStart", "tokenArrayValue"} THEN "tokenArrayComma"
    ELSE IF st = "tokenObjectValue" THEN "tokenObjectComma"
    ELSE st

Pop(stack) == SubSeq(stack, 1, Len(stack) - 1)

\* Decoder.Token: the next token, or an error at the end of the input, at
\* text that is not JSON, or at a lexeme the decoder's state does not allow.
\* isEntries: the token is the string "entries".  A call inside an "obj"
\* stands for the calls that read the rest of that object.
Token(dec, doc) ==
    LET k == doc[dec.pos].k
        st == afterPunct(dec.tokenState, k)
        fail == [err |-> TRUE, dec |-> dec, isEntries |-> FALSE]
        ok(d) == [err |-> FALSE, dec |-> d, isEntries |-> FALSE]
        push(s) == [dec EXCEPT !.pos = @ + 1, !.tokenStack = Append(@, st),
                               !.tokenState = s]
        pop == [dec EXCEPT !.pos = @ + 1, !.tokenStack = Pop(@), !.inObj = FALSE,
                           !.tokenState = tokenValueEnd(dec.tokenStack[Len(dec.tokenStack)])]
    IN  IF dec.inObj THEN ok(pop)
        ELSE IF dec.pos > Len(doc) THEN fail
        ELSE IF k = "[" THEN
            IF tokenValueAllowed(st) THEN ok(push("tokenArrayStart")) ELSE fail
        ELSE IF k = "{" THEN
            IF tokenValueAllowed(st) THEN ok(push("tokenObjectStart")) ELSE fail
        ELSE IF k = "obj" THEN
            IF tokenValueAllowed(st)
            THEN ok([dec EXCEPT !.tokenStack = Append(@, st), !.inObj = TRUE,
                                !.tokenState = "tokenObjectStart"])
            ELSE fail
        ELSE IF k = "]" THEN
            IF st \in {"tokenArrayStart", "tokenArrayComma"} THEN ok(pop) ELSE fail
        ELSE IF k = "}" THEN
            IF st \in {"tokenObjectStart", "tokenObjectComma"} THEN ok(pop) ELSE fail
        ELSE IF k \in Strings /\ st \in {"tokenObjectStart", "tokenObjectKey"} THEN
            [err |-> FALSE, isEntries |-> k = "entries",
             dec |-> [dec EXCEPT !.pos = @ + 1, !.tokenState = "tokenObjectColon"]]
        ELSE IF k \in Scalars /\ tokenValueAllowed(st) THEN
            [err |-> FALSE, isEntries |-> k = "entries",
             dec |-> [dec EXCEPT !.pos = @ + 1, !.tokenState = tokenValueEnd(st)]]
        ELSE fail

\* Decoder.More: there is another element before the closing delimiter
More(dec, doc) ==
    dec.inObj \/ (dec.pos <= Len(doc) /\ doc[dec.pos].k \notin Closes)

\* the index of the last lexeme of the JSON value that starts at i, 0 when
\* the text from i is not a complete JSON value
RECURSIVE ScanValue(_, _, _)
ScanValue(doc, i, stack) ==
    IF i > Len(doc) THEN 0
    ELSE LET k == doc[i].k IN
         IF k = "bad" THEN 0
         ELSE IF k \in Opens THEN ScanValue(doc, i + 1, Append(stack, k))
         ELSE IF k \in Closes THEN
              IF stack = <<>> THEN 0
              ELSE IF (k = "}") # (stack[Len(stack)] = "{") THEN 0
              ELSE IF Len(stack) = 1 THEN i
              ELSE ScanValue(doc, i + 1, Pop(stack))
         ELSE IF stack = <<>> THEN i
         ELSE ScanValue(doc, i + 1, stack)

\* Decoder.Decode(&entry): reads one whole JSON value and unmarshals it
\* into an Entry.  After an object's "{" or after a value that wants a comma
\* the text read is not a value of type Entry (a key, a ",").  Objects and
\* null unmarshal, anything else is an UnmarshalTypeError.
Decode(dec, doc) ==
    LET k == doc[dec.pos].k
        st == IF dec.tokenState = "tokenObjectComma" THEN dec.tokenState
              ELSE afterPunct(dec.tokenState, k)
        end == ScanValue(doc, dec.pos, <<>>)
        fail == [err |-> TRUE, dec |-> dec, entry |-> NoEntry]
    IN  IF dec.inObj \/ dec.pos > Len(doc) THEN fail
        ELSE IF st \in {"tokenObjectComma", "tokenObjectStart", "tokenObjectKey"} THEN fail
        ELSE IF end = 0 THEN fail
        ELSE IF k \in {"obj", "null", "{"} THEN
            [err |-> FALSE, entry |-> doc[dec.pos].v,
             dec |-> [dec EXCEPT !.pos = end + 1, !.tokenState = tokenValueEnd(st)]]
        ELSE fail

----------------------------------------------------------------------------
(* The program state.                                                      *)

VARIABLES
    args,           \* flag.Args(): the input files, each openable or not
    flags,          \* output, removeQueryString, dryRun, verbose, hostAllowlistStr
    before,         \* the file system when the program starts
    fs,             \* the file system
    pc,             \* where main / processHar stands
    argi,           \* index of the argument the range loop is at
    hostAllowlist,  \* main's map of allowed hosts, as its key set
    dec,            \* processHar's decoder
    count,          \* processHar's count
    herr,           \* processHar returned an error
    log,            \* one record per iteration of the loop at main.go:94
    attempts,       \* the arguments os.Open was called with, in order
    reports,        \* the summary lines main printed
    exitCode        \* -1 while running, else the exit status

vars == <<args, flags, before, fs, pc, argi, hostAllowlist, dec, count, herr,
          log, attempts, reports, exitCode>>

doc == args[argi].doc

----------------------------------------------------------------------------
(* Inputs.                                                                 *)

S_(a, b, c) == <<a, b, c>>

UrlPrefixes ==
    { <<>>,
      <<"s", ":", "/", "/", "h">>,
      <<"s", ":", "/", "/", ".", ".">>,
      <<"/", "/", "g">>,
      <<"s", ":">>,
      <<":">>,
      <<"s", ":", "/", "/", "h", "\\">> }

PathChars == {"/", "a", ".", "\\"}

UrlSuffixes == { <<>>, <<"?", "/">> }

Urls == {p \o m \o q : p \in UrlPrefixes, m \in SeqsUpTo(PathChars, MaxPathLen),
                       q \in UrlSuffixes}

\* 'Q', 'R', '=', '\n'
TextChars == {81, 82, 61, 10}

Texts == SeqsUpTo(TextChars, MaxTextLen)

UrlHA == <<"s", ":", "/", "/", "h", "/", "a">>

\* entries that collide on a path, clash file against directory, fail to
\* decode as base64, or belong to another host
SmallEntries ==
    { [url |-> UrlHA \o <<"?", "x">>, text |-> <<81, 81, 61, 61>>, encoding |-> "base64"],
      [url |-> UrlHA, text |-> <<81, 10>>, encoding |-> ""],
      [url |-> <<"s", ":", "/", "/", "h", "/", "-", "a", "/", "b">>,
       text |-> <<65>>, encoding |-> "gzip"],
      [url |-> <<"s", ":", "/", "/", "g", "/", "a", "#", "x">>, text |-> <<81>>,
       encoding |-> "base64"] }

Elements == {Obj(e) : e \in SmallEntries} \cup {Lex("num"), Lex("bad")}

\* what a document of another shape has before its elements: "entries" in
\* a top-level array, no "entries" at all, "entries" followed by a number or
\* by an object, "entries" as a value, "entries" as the last key
DocPrefixes ==
    { <<Lex("["), Lex("entries"), Lex("[")>>,
      <<Lex("{"), Lex("str"), Lex("{")>>,
      <<Lex("{"), Lex("entries"), Lex("num")>>,
      <<Lex("{"), Lex("entries"), Lex("{")>>,
      <<Lex("{"), Lex("str"), Lex("entries"), Lex("str"), Lex("[")>>,
      <<Lex("{"), Lex("entries")>> }

\* the closing delimiters in the order that closes the prefix
RECURSIVE Closing(_)
Closing(pre) ==
    IF pre = <<>> THEN <<>>
    ELSE LET k == pre[Len(pre)].k
             rest == Closing(Pop(pre))
         IN IF k = "{" THEN <<Lex("}")>> \o rest
            ELSE IF k = "[" THEN <<Lex("]")>> \o rest
            ELSE rest

HarPrefix == <<Lex("{"), Lex("str"), Lex("{"), Lex("entries"), Lex("[")>>

\* a document: closed properly, or cut off after its last element; the HAR
\* shape with up to MaxEntries elements, the other shapes with at most one
Docs(elems) ==
    {HarPrefix \o es \o post : es \in SeqsUpTo(elems, MaxEntries),
                               post \in {<<>>, Closing(HarPrefix)}} \cup
    {pre \o es \o post : pre \in DocPrefixes, es \in SeqsUpTo(elems, 1),
                         post \in {<<>>}} \cup
    {pre \o es \o Closing(pre) : pre \in DocPrefixes, es \in SeqsUpTo(elems, 1)}

HarDoc(es) == HarPrefix \o es \o Closing(HarPrefix)

File(d) == [openable |-> TRUE, doc |-> d]

NoFile == [openable |-> FALSE, doc |-> <<>>]

Flags(o, r, d, v, h) ==
    [output |-> o, removeQueryString |-> r, dryRun |-> d, verbose |-> v,
     hostAllowlistStr |-> h]

\* a file system with a file already where UrlHA is written under "o"
PreFS == [dirs |-> {<<"o">>, <<"o", "/", "h">>},
          files |-> (<<"o", "/", "h", "/", "-", "a">> :> <<1, 2, 3>>)]

\* one entry, every URL
InputsPaths ==
    {S_(<<File(HarDoc(<<Obj([url |-> u, text |-> <<81, 81, 61, 61>>,
                             encoding |-> "base64"])>>))>>,
        Flags(<<"o">>, r, FALSE, FALSE, <<>>), EmptyFS) :
        u \in Urls, r \in BOOLEAN}

\* one base64 entry, every text
InputsTexts ==
    {S_(<<File(HarDoc(<<Obj([url |-> UrlHA, text |-> t, encoding |-> "base64"])>>))>>,
        Flags(<<"o">>, FALSE, FALSE, FALSE, <<>>), EmptyFS) :
        t \in Texts}

\* one file, every document
InputsDocs ==
    {S_(<<File(d)>>, Flags(<<"o">>, TRUE, dr, TRUE, h), EmptyFS) :
        d \in Docs(Elements), dr \in BOOLEAN, h \in {<<>>, <<"h">>}}

FileKinds ==
    { NoFile,
      File(HarDoc(<<Obj([url |-> UrlHA, text |-> <<81>>, encoding |-> ""])>>)),
      File(HarDoc(<<Obj([url |-> <<"g">>, text |-> <<82>>, encoding |-> ""]),
                    Obj([url |-> <<":">>, text |-> <<>>, encoding |-> ""])>>)),
      File(<<Lex("{"), Lex("str"), Lex("{"), Lex("}"), Lex("}")>>),
      File(<<Lex("{"), Lex("entries"), Lex("num"), Lex("}")>>) }

\* every command line, with and without dry run, allowlist and old files
InputsArgs ==
    {S_(a, Flags(o, FALSE, d, TRUE, h), b) :
        a \in SeqsUpTo(FileKinds, MaxArgs), o \in {<<"o">>, <<".">>},
        d \in BOOLEAN, h \in {<<>>, <<"g", ",", "h">>}, b \in {EmptyFS, PreFS}}

Inputs == InputsPaths \cup InputsTexts \cup InputsDocs \cup InputsArgs

----------------------------------------------------------------------------
(* The state machine.                                                      *)

Init ==
    \E in \in Inputs :
        /\ args = in[1]
        /\ flags = in[2]
        /\ before = in[3]
        /\ fs = in[3]
        /\ pc = "main"
        /\ argi = 0
        /\ hostAllowlist = {}
        /\ dec = NewDecoder
        /\ count = 0
        /\ herr = FALSE
        /\ log = <<>>
        /\ attempts = <<>>
        /\ reports = <<>>
        /\ exitCode = -1

\* main.go:196-201: the map of allowed hosts built from -allowed-hosts
makeAllowlist(hostAllowlistStr) ==
    IF hostAllowlistStr = <<>> THEN {}
    ELSE {SplitOn(hostAllowlistStr, ",")[i] :
            i \in 1..Len(SplitOn(hostAllowlistStr, ","))}

\* main.go:191-194: no input file, exit status 1
MainNoArgs ==
    /\ pc = "main"
    /\ Len(args) = 0
    /\ pc' = "exit"
    /\ exitCode' = 1
    /\ UNCHANGED <<args, flags, before, fs, argi, hostAllowlist, dec, count, herr,
                   log, attempts, reports>>

\* main.go:196-203: build the allowlist, enter the loop over the arguments
MainStart ==
    /\ pc = "main"
    /\ Len(args) > 0
    /\ hostAllowlist' = makeAllowlist(flags.hostAllowlistStr)
    /\ argi' = 1
    /\ pc' = "open"
    /\ UNCHANGED <<args, flags, before, fs, dec, count, herr, log, attempts,
                   reports, exitCode>>

\* the loop left at the first file that fails
nextArg_stop(i) == IF i < Len(args) /\ ~herr THEN "open" ELSE "exit"

\* the range loop's step after an iteration: the next argument, or the end
\* of main with exit status 0
nextArg(i) == IF i < Len(args) THEN "open" ELSE "exit"

\* main.go:204-208: os.Open fails, the line is printed, continue
MainOpenFail ==
    /\ pc = "open"
    /\ ~args[argi].openable
    /\ attempts' = Append(attempts, argi)
    /\ reports' = Append(reports, [arg |-> argi, kind |-> "openFailed", count |-> 0])
    /\ pc' = nextArg(argi)
    /\ argi' = IF argi < Len(args) THEN argi + 1 ELSE argi
    /\ exitCode' = IF argi < Len(args) THEN exitCode ELSE 0
    /\ UNCHANGED <<args, flags, before, fs, hostAllowlist, dec, count, herr, log>>

\* main.go:204, 210-211, 73-74: the file opens, processHar starts
MainOpen ==
    /\ pc = "open"
    /\ args[argi].openable
    /\ attempts' = Append(attempts, argi)
    /\ dec' = NewDecoder
    /\ count' = 0
    /\ herr' = FALSE
    /\ pc' = "scan"
    /\ UNCHANGED <<args, flags, before, fs, argi, hostAllowlist, log, reports, exitCode>>

\* a call of decoder.Token(): an error returns from processHar, else the
\* function goes on at onEntries after the string "entries", at onOther
\* after any other token
TokenRead(t, onEntries, onOther) ==
    /\ dec' = t.dec
    /\ herr' = t.err
    /\ pc' = IF t.err THEN "return" ELSE IF t.isEntries THEN onEntries ELSE onOther

\* main.go:77-87: one iteration of the loop that reads until "entries"
ScanToken ==
    /\ pc = "scan"
    /\ TokenRead(Token(dec, doc), "bracket", "scan")
    /\ UNCHANGED <<args, flags, before, fs, argi, hostAllowlist, count, log,
                   attempts, reports, exitCode>>

\* main.go:89-92: the token after "entries"; only an error is looked at
OpenBracket ==
    /\ pc = "bracket"
    /\ TokenRead(Token(dec, doc), "entries", "entries")
    /\ UNCHANGED <<args, flags, before, fs, argi, hostAllowlist, count, log,
                   attempts, reports, exitCode>>

LogRec(e, r) ==
    [file |-> argi, entry |-> e, err |-> r.err, outcome |-> r.outcome,
     dirPath |-> r.dirPath, filePath |-> r.filePath, printed |-> r.printed]

\* count++ before the error of processEntry is looked at
countAfter_always(c, err) == c + 1

\* main.go:100-104: count++ is reached only when processEntry returned nil
countAfter(c, err) == IF err THEN c ELSE c + 1

\* main.go:100-104: processEntry has run on the decoded entry
EntryProcessed(d, r) ==
    /\ dec' = d.dec
    /\ fs' = r.fs
    /\ log' = Append(log, LogRec(d.entry, r))
    /\ herr' = r.err
    /\ pc' = IF r.err THEN "return" ELSE "entries"
    /\ count' = countAfter(count, r.err)

\* main.go:96-100: the error of Decode returns, else processEntry is called
EntryDecoded(d) ==
    IF d.err
    THEN /\ dec' = d.dec
         /\ herr' = TRUE
         /\ pc' = "return"
         /\ log' = Append(log, [file |-> argi, entry |-> NoEntry, err |-> TRUE,
                                outcome |-> "decodeError", dirPath |-> <<>>,
                                filePath |-> <<>>, printed |-> FALSE])
         /\ UNCHANGED <<fs, count>>
    ELSE EntryProcessed(d, processEntry(d.entry, flags.output, flags.removeQueryString,
                                        flags.dryRun, flags.verbose, hostAllowlist, fs))

\* main.go:94-105: one iteration of the loop over the elements
NextEntry ==
    /\ pc = "entries"
    /\ More(dec, doc)
    /\ EntryDecoded(Decode(dec, doc))
    /\ UNCHANGED <<args, flags, before, argi, hostAllowlist, attempts, reports, exitCode>>

\* main.go:94, 107-112: no more elements, the closing token, return
CloseBracket ==
    /\ pc = "entries"
    /\ ~More(dec, doc)
    /\ TokenRead(Token(dec, doc), "return", "return")
    /\ UNCHANGED <<args, flags, before, fs, argi, hostAllowlist, count, log,
                   attempts, reports, exitCode>>

\* main.go:212-218: the summary line, then the next argument
MainReport ==
    /\ pc = "return"
    /\ reports' = Append(reports, [arg |-> argi,
                                   kind |-> IF herr THEN "failed" ELSE "ok",
                                   count |-> count])
    /\ pc' = nextArg(argi)
    /\ argi' = IF argi < Len(args) THEN argi + 1 ELSE argi
    /\ exitCode' = IF argi < Len(args) THEN exitCode ELSE 0
    /\ UNCHANGED <<args, flags, before, fs, hostAllowlist, dec, count, herr, log, attempts>>

Next ==
    \/ MainNoArgs
    \/ MainStart
    \/ MainOpenFail
    \/ MainOpen
    \/ ScanToken
    \/ OpenBracket
    \/ NextEntry
    \/ CloseBracket
    \/ MainReport

Spec == Init /\ [][Next]_vars

----------------------------------------------------------------------------
(* Properties.                                                             *)

LogIdx == 1..Len(log)

Finished == pc = "exit" /\ Len(args) > 0

AllOk == \A i \in 1..Len(reports) : reports[i].kind = "ok"

\* the paths whose file this run created or truncated
WrittenPaths ==
    {log[i].filePath : i \in {j \in LogIdx : log[j].outcome \in {"written", "base64Error"}}}

\* the directories this run created
CreatedDirs == fs.dirs \ before.dirs

\* C1: in a dry run the file system stays what it was before the run, and
\* every entry whose URL parses is processed without error.
C1_DryRunWritesNothing ==
    flags.dryRun =>
        /\ fs = before
        /\ \A i \in LogIdx :
            (log[i].outcome # "decodeError" /\ ~urlParse(log[i].entry.url).err)
                => ~log[i].err

C1_Witness ==
    /\ flags.dryRun
    /\ pc = "exit"
    /\ before # EmptyFS
    /\ \E i \in LogIdx : log[i].outcome = "dry" /\ log[i].entry.text # <<>>

\* the iteration at main.go:94 is about to process a decodable entry whose
\* URL parses and whose host a non-empty allowlist does not hold
AtDisallowedHost ==
    /\ pc = "entries"
    /\ More(dec, doc)
    /\ ~Decode(dec, doc).err
    /\ ~urlParse(Decode(dec, doc).entry.url).err
    /\ hostAllowlist # {}
    /\ urlParse(Decode(dec, doc).entry.url).Host \notin hostAllowlist

\* C2: an entry whose host a non-empty allowlist does not hold changes no
\* directory and no file, raises no error and leaves the loop running at the
\* next element; with an empty allowlist no entry is skipped.
C2_HostFilterSkips ==
    /\ [](\A i \in LogIdx : flags.hostAllowlistStr = <<>> => log[i].outcome # "skip")
    /\ [][AtDisallowedHost =>
            /\ fs' = fs
            /\ ~herr'
            /\ pc' = "entries"
            /\ dec'.pos > dec.pos
            /\ log'[Len(log')].outcome = "skip"]_vars

C2_Witness ==
    \E i, j \in LogIdx :
        /\ i < j
        /\ log[i].file = log[j].file
        /\ log[i].outcome = "skip"
        /\ log[j].outcome = "written"

\* the log records of one input file
LogOf(a) == SelectSeq(log, LAMBDA l : l.file = a)

\* C3: an error is the last thing processHar does with a file, and the
\* count reported with it is the number of entries before it that were
\* decoded and materialized without error.
C3_StopsAtFirstFailure ==
    /\ \A a \in 1..Len(args) :
        \A i \in 1..Len(LogOf(a)) : LogOf(a)[i].err => i = Len(LogOf(a))
    /\ \A n \in 1..Len(reports) :
        reports[n].kind = "failed" =>
            reports[n].count =
                Cardinality({i \in 1..Len(LogOf(reports[n].arg)) :
                                ~LogOf(reports[n].arg)[i].err})

C3_Witness ==
    \E n \in 1..Len(reports) :
        /\ reports[n].kind = "failed"
        /\ reports[n].count = 1
        /\ Len(LogOf(reports[n].arg)) = 2
        /\ LogOf(reports[n].arg)[2].outcome = "base64Error"

\* C4: os.Open is called once per argument in command-line order whatever
\* happened to the earlier ones, and the exit status is non-zero exactly
\* when there is no argument.
C4_EveryArgumentAttempted ==
    /\ attempts = [i \in 1..Len(attempts) |-> i]
    /\ pc = "exit" =>
        /\ Len(attempts) = Len(args)
        /\ Len(reports) = Len(args)
        /\ (exitCode # 0) <=> (Len(args) = 0)

C4_Witness ==
    /\ pc = "exit"
    /\ Len(args) = 2
    /\ reports[1].kind = "failed"
    /\ reports[2].kind = "ok"
    /\ exitCode = 0

\* the bytes an entry's content stands for
ContentOf(e) == IF e.encoding = "base64" THEN DecodeString(e.text).data ELSE e.text

\* the last iteration that passed the host filter and resolved to path p
LastFor(p) ==
    CHOOSE i \in LogIdx :
        /\ log[i].filePath = p
        /\ log[i].outcome # "skip"
        /\ \A j \in LogIdx : (j > i /\ log[j].outcome # "skip") => log[j].filePath # p

\* C5: after a run without dry-run in which every file was processed
\* successfully, each written file holds exactly the content of the last
\* entry that passed the host filter and resolved to its path.
C5_LastEntryWins ==
    (Finished /\ AllOk /\ ~flags.dryRun) =>
        \A p \in WrittenPaths :
            /\ IsFile(fs, p)
            /\ fs.files[p] = ContentOf(log[LastFor(p)].entry)

C5_Witness ==
    /\ Finished /\ AllOk /\ ~flags.dryRun
    /\ \E i, j \in LogIdx :
        /\ i < j
        /\ log[i].filePath = log[j].filePath
        /\ log[i].outcome = "written"
        /\ log[j].outcome = "written"
        /\ Len(ContentOf(log[i].entry)) > Len(ContentOf(log[j].entry))

\* the iterations that wrote a base64 entry whose file no later one touched
Base64Written ==
    {i \in LogIdx :
        /\ log[i].entry.encoding = "base64"
        /\ log[i].outcome = "written"
        /\ \A j \in LogIdx : j > i => log[j].filePath # log[i].filePath}

\* C6 as stated: re-encoding the written bytes of a base64 entry the decoder
\* accepted gives content.text back.
C6_RoundTripAny ==
    \A i \in Base64Written :
        EncodeToString(fs.files[log[i].filePath]) = log[i].entry.text

\* canonical standard base64: no CR or LF, and the bits of the last group
\* that padding leaves unused are zero
Canonical(t) ==
    /\ \A i \in 1..Len(t) : t[i] # 10 /\ t[i] # 13
    /\ (Len(t) >= 4 /\ t[Len(t)] = PadChar /\ t[Len(t) - 1] = PadChar)
            => Sextet(t[Len(t) - 2]) % 16 = 0
    /\ (Len(t) >= 4 /\ t[Len(t)] = PadChar /\ t[Len(t) - 1] # PadChar)
            => Sextet(t[Len(t) - 1]) % 4 = 0

\* C6 amended: the round trip gives content.text back when content.text is
\* canonical standard base64.
C6_RoundTripCanonical ==
    \A i \in Base64Written :
        Canonical(log[i].entry.text) =>
            EncodeToString(fs.files[log[i].filePath]) = log[i].entry.text

C6_Witness ==
    \E i \in Base64Written :
        /\ Canonical(log[i].entry.text)
        /\ Len(log[i].entry.text) = 4
        /\ log[i].entry.text[4] = PadChar
        /\ log[i].entry.text[3] # PadChar

\* a raw URL with its query string cut out of the text
StripQuery(rawURL) ==
    LET u == CutBefore(rawURL, "#") IN
    IF Index(u, "?") = 0 THEN rawURL
    ELSE CutBefore(u, "?") \o Tail2(rawURL, Len(u) + 1)

\* the iterations that derived a destination
Derived == {i \in LogIdx : log[i].dirPath # <<>>}

BasePortion(path) == Tail2(path, LastIndex(path, "/") + 1)

\* C8: the destination file path is the destination directory joined with
\* the sanitized basename portion of the URL path.
C8_FileIsSanitizedBasename ==
    \A i \in LogIdx :
        log[i].filePath # <<>> =>
            log[i].filePath =
                Join(<<log[i].dirPath,
                       safeFileName(BasePortion(urlParse(log[i].entry.url).Path))>>)

\* p is the cleaned root or lies below it
InsideRoot(root, p) ==
    LET r == Clean(root) IN
    \/ p = r
    \/ r = <<"/">> /\ HasPrefix(p, <<"/">>)
    \/ r = <<".">> /\ ~HasPrefix(p, <<"/">>) /\ Split(p)[1] # <<".", ".">>
    \/ HasPrefix(p, r \o <<"/">>)

\* C9: every directory created and every file created or written lies
\* inside the output root.
C9_NothingOutsideRoot ==
    \A p \in CreatedDirs \cup WrittenPaths : InsideRoot(flags.output, p)

\* the first "entries" string of the document is followed by "["
EntriesThenArray(d) ==
    \E i \in 1..Len(d) :
        /\ d[i].k = "entries"
        /\ \A j \in 1..(i - 1) : d[j].k # "entries"
        /\ i < Len(d)
        /\ d[i + 1].k = "["

\* C10: a document whose first "entries" is not followed by an array, or
\* that has no "entries", is reported as failed with count 0.
C10_NonArrayEntriesFails ==
    \A n \in 1..Len(reports) :
        (reports[n].kind # "openFailed" /\ ~EntriesThenArray(args[reports[n].arg].doc))
            => (reports[n].kind = "failed" /\ reports[n].count = 0)

====
